---- MODULE Spec2Model ----
(***************************************************************************)
(* The battery telemetry aggregator of src/modules/upower.rs:              *)
(* UpowerModule::spawn_controller spawns one fetcher task (init_props)     *)
(* over all device proxies and one listener task per proxy; all of them    *)
(* share properties_map (an Arc<tokio::sync::Mutex<HashMap>>) and publish  *)
(* clones of it through tx.send_update.                                    *)
(***************************************************************************)
EXTENDS Integers, Sequences, FiniteSets, TLC

(* ------------------------------ bounds --------------------------------- *)

\* number of device proxies handed to spawn_controller
NumDevices == 2

\* change signals the bus delivers at most, over all the devices' streams
MaxEvents == 2

\* capacity of the bounded channel behind tx
ChanCap == 1

(* --------------------------- program constants ------------------------- *)

\* `if bat_type != 2 { continue; }`
BatteryType == 2

\* "org.freedesktop.UPower.Device"
DeviceInterface == "org.freedesktop.UPower.Device"

OtherInterface == "org.freedesktop.DBus.Peer"

Dev == 1 .. NumDevices

\* task ids: the fetcher, and listener d for device d
FetcherTask == 0

NoTask == -1

\* native paths, one per device proxy
PathNames == <<"BAT0", "BAT1", "BAT2", "BAT3">>

PathOf(d) == PathNames[d]

(* ------------------------------ wire values ---------------------------- *)

\* a zvariant Value: a type tag and a payload of that type
F64(x) == [ty |-> "f64", val |-> x]

Str(s) == [ty |-> "str", str |-> s]

U32(n) == [ty |-> "u32", val |-> n]

I64(n) == [ty |-> "i64", val |-> n]

\* Value::downcast::<T>() / downcast_ref::<T>(): Ok exactly when the value
\* carries the type asked for
DowncastOk(v, ty) == v.ty = ty

(* ----------------------------- BatteryState ---------------------------- *)

\* the discriminants of clients::upower::BatteryState, in wire order 0..6
BatteryStates ==
    <<"Unknown", "Charging", "Discharging", "Empty", "FullyCharged",
      "PendingCharge", "PendingDischarge">>

\* u32_to_battery_state: Ok(variant) for the seven codes, Err(number) otherwise
u32_to_battery_state(number) ==
    IF number = 0 THEN [ok |-> TRUE, state |-> "Unknown"]
    ELSE IF number = 1 THEN [ok |-> TRUE, state |-> "Charging"]
    ELSE IF number = 2 THEN [ok |-> TRUE, state |-> "Discharging"]
    ELSE IF number = 3 THEN [ok |-> TRUE, state |-> "Empty"]
    ELSE IF number = 4 THEN [ok |-> TRUE, state |-> "FullyCharged"]
    ELSE IF number = 5 THEN [ok |-> TRUE, state |-> "PendingCharge"]
    ELSE IF number = 6 THEN [ok |-> TRUE, state |-> "PendingDischarge"]
    ELSE [ok |-> FALSE, state |-> "Err"]

(* --------------------------- UpowerProperties --------------------------- *)

UpowerProperties(p, icon, st, ttf, tte) ==
    [percentage |-> p, icon_name |-> icon, state |-> st,
     time_to_full |-> ttf, time_to_empty |-> tte]

\* the closure given to or_insert_with
DefaultProperties == UpowerProperties(0, "", "Unknown", 0, 0)

\* HashMap::new()
EmptyMap == [k \in {} |-> DefaultProperties]

\* a fresh map holding the one entry, in place of an insert into the map
MapInsert_Replace(m, k, v) == (k :> v)

\* HashMap::insert
MapInsert(m, k, v) == (k :> v) @@ m

\* entry(k).insert(default) in place of or_insert_with: the entry is reset
EntryOrDefault_AlwaysDefault(m, k) == DefaultProperties

\* HashMap::entry(k).or_insert_with(default): the entry as it is, or the default
EntryOrDefault(m, k) == IF k \in DOMAIN m THEN m[k] ELSE DefaultProperties

(* ------------------------- what the bus can deliver --------------------- *)

\* the static properties of device d as PropertiesProxy::get_all returns them:
\* a battery, a line-power supply, a device whose Type is not a u32, and a
\* battery whose NativePath is not a string
DeviceKinds(d) ==
    { [Type |-> U32(BatteryType), NativePath |-> Str(PathOf(d))],
      [Type |-> U32(1), NativePath |-> Str(PathOf(d))],
      [Type |-> Str("battery"), NativePath |-> Str(PathOf(d))],
      [Type |-> U32(BatteryType), NativePath |-> U32(0)] }

GoodReading ==
    [Percentage |-> F64(57), IconName |-> Str("battery-good"), State |-> U32(1),
     TimeToFull |-> I64(0), TimeToEmpty |-> I64(7200)]

\* the remaining properties of one get_all reply: well formed, with a State
\* code outside 0..6, with a Percentage of the wrong type, and with the
\* TimeToEmpty key missing
Readings ==
    { GoodReading,
      [GoodReading EXCEPT !.State = U32(99)],
      [GoodReading EXCEPT !.Percentage = Str("57")],
      [n \in DOMAIN GoodReading \ {"TimeToEmpty"} |-> GoodReading[n]] }

\* raw_props[name].downcast_ref::<T>().expect(..): the index panics on a
\* missing key, the expect on a value of another type
Has(raw, name, ty) == name \in DOMAIN raw /\ DowncastOk(raw[name], ty)

(* ------------------------------ the fetcher ----------------------------- *)

\* the filter left out: every device is taken for a battery
NotABattery_NoFilter(bat_type) == FALSE

\* `if bat_type != 2 { continue; }`
NotABattery(bat_type) == bat_type # BatteryType

\* u32_to_battery_state(..).unwrap_or(BatteryState::Unknown)
FetchState(number) ==
    IF u32_to_battery_state(number).ok THEN u32_to_battery_state(number).state
    ELSE "Unknown"

\* the body of the fetcher's loop from the get_all reply to the record it
\* builds: "panic" when an index or an expect fails, "skip" on the continue,
\* "ok" with the native path and the properties to insert
FetchDecode(raw) ==
    LET none == [kind |-> "panic", path |-> "", props |-> DefaultProperties] IN
    IF ~Has(raw, "Type", "u32") THEN none
    ELSE IF NotABattery(raw["Type"].val) THEN [none EXCEPT !.kind = "skip"]
    ELSE IF ~Has(raw, "NativePath", "str") THEN none
    ELSE IF ~Has(raw, "Percentage", "f64") THEN none
    ELSE IF ~Has(raw, "IconName", "str") THEN none
    ELSE IF ~Has(raw, "State", "u32") THEN none
    ELSE IF ~Has(raw, "TimeToFull", "i64") THEN none
    ELSE IF ~Has(raw, "TimeToEmpty", "i64") THEN none
    ELSE [kind |-> "ok", path |-> raw["NativePath"].str,
          props |-> UpowerProperties(raw["Percentage"].val, raw["IconName"].str,
                                     FetchState(raw["State"].val),
                                     raw["TimeToFull"].val, raw["TimeToEmpty"].val)]

(* ----------------------------- the listeners ---------------------------- *)

\* the names the listener's match has an arm for
Recognized == {"Percentage", "IconName", "State", "TimeToFull", "TimeToEmpty"}

Signal(iface, changed) == [args_ok |-> TRUE, iface |-> iface, changed |-> changed]

\* a signal whose body signal.args() cannot deserialize
BadArgsSignal == [args_ok |-> FALSE, iface |-> DeviceInterface, changed |-> [n \in {} |-> U32(0)]]

\* no signal in hand
NoSignal == [args_ok |-> TRUE, iface |-> "", changed |-> [n \in {} |-> U32(0)]]

\* the PropertiesChanged signals a device's stream can deliver
Signals ==
    { Signal(DeviceInterface, [Percentage |-> F64(60)]),
      Signal(DeviceInterface, [Percentage |-> F64(60), TimeToFull |-> Str("soon"),
                               TimeToEmpty |-> I64(1800)]),
      Signal(DeviceInterface, [State |-> U32(2)]),
      Signal(DeviceInterface, [State |-> U32(99)]),
      Signal(DeviceInterface, [State |-> Str("charging")]),
      Signal(DeviceInterface, [IconName |-> Str("battery-full"), TimeToEmpty |-> I64(3600)]),
      Signal(DeviceInterface, [Online |-> U32(1)]),
      Signal(OtherInterface, [Percentage |-> F64(60)]),
      BadArgsSignal }

\* changed_value.downcast::<u32>().unwrap_or(0)
StateNumber(value) == IF DowncastOk(value, "u32") THEN value.val ELSE 0

\* one arm of the match on the property name: the properties after it and
\* whether its expect panicked
Arm(props, name, value) ==
    LET ok(p) == [props |-> p, panicked |-> FALSE]
        panic == [props |-> props, panicked |-> TRUE]
    IN  CASE name = "Percentage" ->
               IF DowncastOk(value, "f64")
               THEN ok([props EXCEPT !.percentage = value.val]) ELSE panic
          [] name = "IconName" ->
               IF DowncastOk(value, "str")
               THEN ok([props EXCEPT !.icon_name = value.str]) ELSE panic
          [] name = "State" ->
               IF u32_to_battery_state(StateNumber(value)).ok
               THEN ok([props EXCEPT
                          !.state = u32_to_battery_state(StateNumber(value)).state])
               ELSE panic
          [] name = "TimeToFull" ->
               IF DowncastOk(value, "i64")
               THEN ok([props EXCEPT !.time_to_full = value.val]) ELSE panic
          [] name = "TimeToEmpty" ->
               IF DowncastOk(value, "i64")
               THEN ok([props EXCEPT !.time_to_empty = value.val]) ELSE panic
          [] OTHER -> ok(props)

\* the orders in which `for (name, changed_value) in args.changed_properties`
\* can visit the entries of the HashMap
Orders(changed) ==
    LET names == DOMAIN changed
        n == Cardinality(names)
    IN  { o \in [1 .. n -> names] : \A i, j \in 1 .. n : i # j => o[i] # o[j] }

\* the for loop over the changed properties, visited in `order`, up to its
\* first panic: the properties it leaves in the map, whether it panicked and
\* in which arm, and how many recognized fields it had assigned by then
RECURSIVE ApplyChanged(_, _, _)
ApplyChanged(props, changed, order) ==
    IF order = << >>
    THEN [props |-> props, panicked |-> FALSE, arm |-> "", written |-> 0]
    ELSE LET first == Arm(props, Head(order), changed[Head(order)]) IN
         IF first.panicked
         THEN [props |-> props, panicked |-> TRUE, arm |-> Head(order), written |-> 0]
         ELSE LET rest == ApplyChanged(first.props, changed, Tail(order)) IN
              [rest EXCEPT !.written =
                  @ + (IF Head(order) \in Recognized THEN 1 ELSE 0)]

(* ------------------- the behaviour the specification states ------------ *)

\* the wire type the decoder expects for a recognized name
WireType(name) ==
    CASE name = "Percentage" -> "f64"
      [] name = "IconName" -> "str"
      [] name = "State" -> "u32"
      [] name = "TimeToFull" -> "i64"
      [] name = "TimeToEmpty" -> "i64"

\* the BatteryState mapping as the specification states it: total, with every
\* code outside 0..6 mapped to Unknown
TotalState(number) ==
    IF number \in 0 .. 6 THEN BatteryStates[number + 1] ELSE "Unknown"

\* a change event applied the way the specification states it: every
\* recognized field whose value has the expected wire type is applied, a
\* mistyped or unrecognized one leaves the stored value as it is
SwallowingApply(props, changed) ==
    LET good(name) == name \in DOMAIN changed /\ DowncastOk(changed[name], WireType(name))
    IN  [percentage |-> IF good("Percentage") THEN changed["Percentage"].val
                        ELSE props.percentage,
         icon_name |-> IF good("IconName") THEN changed["IconName"].str
                       ELSE props.icon_name,
         state |-> IF good("State") THEN TotalState(changed["State"].val)
                   ELSE props.state,
         time_to_full |-> IF good("TimeToFull") THEN changed["TimeToFull"].val
                          ELSE props.time_to_full,
         time_to_empty |-> IF good("TimeToEmpty") THEN changed["TimeToEmpty"].val
                           ELSE props.time_to_empty]

\* the recognized fields of a change event whose value has the wrong wire type
Mistyped(changed) ==
    { name \in DOMAIN changed \cap Recognized : ~DowncastOk(changed[name], WireType(name)) }

\* the recognized fields of a change event whose value has the expected type
WellTyped(changed) == (DOMAIN changed \cap Recognized) \ Mistyped(changed)

(* -------------------------------- state --------------------------------- *)

VARIABLES
    dev,         \* dev[d]: the static properties of the device behind proxy d
    store,       \* properties_map: native path -> UpowerProperties
    lockHolder,  \* the task holding the MutexGuard of properties_map, or NoTask
    fpc,         \* where the fetcher task is
    fidx,        \* the proxy the fetcher's loop is at
    fprops,      \* the native path and properties the fetcher is about to insert
    snap,        \* snap[t]: the clone of the map task t is sending
    lpc,         \* lpc[d]: where listener d is
    lpath,       \* lpath[d]: the native_path listener d resolved
    lcur,        \* lcur[d]: the signal listener d is handling
    nrecv,       \* nrecv[d]: signals the stream of d has delivered
    chan,        \* the channel behind tx: snapshots sent and not yet received
    lastPub,     \* history: the snapshot sent last, with its sender
    npub,        \* history: npub[t]: snapshots task t has sent
    fetched,     \* history: the keys the fetcher has inserted
    torn,        \* history: keys whose entry holds some and not all of the
                 \*          well-typed fields of a signal whose loop panicked
    lcause,      \* history: why listener d ended
    fcause,      \* history: why the fetcher ended
    lwant,       \* history: lwant[d]: the entry the signals listener d received
                 \*          call for, each well-typed field applied in order
    newer,       \* history: the fields of the entry at fprops.path that
                 \*          listeners changed since the fetcher read fprops
    widget       \* history: whether a closure on a snapshot has panicked

vars == <<dev, store, lockHolder, fpc, fidx, fprops, snap, lpc, lpath, lcur,
          nrecv, chan, lastPub, npub, fetched, torn, lcause, fcause, lwant,
          newer, widget>>

Tasks == {FetcherTask} \cup Dev

\* nothing sent yet
NoPub == [by |-> NoTask, snap |-> EmptyMap, torn |-> {}, ended |-> {}]

\* signals delivered so far, over all streams
RECURSIVE Delivered(_, _)
Delivered(n, d) == IF d = 0 THEN 0 ELSE n[d] + Delivered(n, d - 1)

NoProps == [kind |-> "none", path |-> "", props |-> DefaultProperties]

Init ==
    /\ dev \in { f \in [Dev -> UNION { DeviceKinds(d) : d \in Dev }] :
                   \A d \in Dev : f[d] \in DeviceKinds(d) }
    /\ store = EmptyMap
    /\ lockHolder = NoTask
    /\ fpc = "get_all"
    /\ fidx = 1
    /\ fprops = NoProps
    /\ snap = [t \in Tasks |-> EmptyMap]
    /\ lpc = [d \in Dev |-> "start"]
    /\ lpath = [d \in Dev |-> ""]
    /\ lcur = [d \in Dev |-> NoSignal]
    /\ nrecv = [d \in Dev |-> 0]
    /\ chan = << >>
    /\ lastPub = NoPub
    /\ npub = [t \in Tasks |-> 0]
    /\ fetched = {}
    /\ torn = {}
    /\ lcause = [d \in Dev |-> "alive"]
    /\ fcause = "alive"
    /\ lwant = [d \in Dev |-> DefaultProperties]
    /\ newer = {}
    /\ widget = "running"

\* tx.send_update(map).await completes: the snapshot enters the channel
Publish(t) ==
    /\ Len(chan) < ChanCap
    /\ chan' = Append(chan, snap[t])
    /\ lastPub' = [by |-> t, snap |-> snap[t], torn |-> torn,
                   ended |-> { d \in Dev : lcause[d] # "alive" }]
    /\ npub' = [npub EXCEPT ![t] = @ + 1]

(* ---- the fetcher task (init_props) ---- *)

\* the publish moved into the loop body, the task ending after it
AfterDevice_PublishInLoop(i) == "publish"

\* where the for loop goes after proxy i: the next proxy, or past the loop
AfterDevice(i) == IF i < NumDevices THEN "get_all" ELSE "publish"

\* proxy.get_all(..).await? fails: the ? ends the task
F_GetAllErr ==
    /\ fpc = "get_all"
    /\ fpc' = "failed"
    /\ fcause' = "get_all"
    /\ UNCHANGED <<newer, widget, dev, store, lockHolder, fidx, fprops, snap, lpc, lpath, lcur,
                   nrecv, chan, lastPub, npub, fetched, torn, lcause,
                   lwant>>

\* proxy.get_all(..).await? succeeds and the reply is decoded
F_GetAll ==
    /\ fpc = "get_all"
    /\ \E reading \in Readings :
         LET r == FetchDecode(dev[fidx] @@ reading) IN
         /\ fpc' = CASE r.kind = "panic" -> "failed"
                     [] r.kind = "skip" -> AfterDevice(fidx)
                     [] OTHER -> "insert"
         /\ fidx' = IF r.kind = "skip" THEN fidx + 1 ELSE fidx
         /\ fprops' = IF r.kind = "ok" THEN r ELSE NoProps
         /\ fcause' = IF r.kind = "panic" THEN "decode" ELSE fcause
    /\ newer' = {}
    /\ UNCHANGED <<widget, dev, store, lockHolder, snap, lpc, lpath, lcur, nrecv, chan,
                   lastPub, npub, fetched, torn, lcause,
                   lwant>>

\* properties_map.lock().await.insert(native_path, properties): the guard is
\* a temporary of this statement, dropped at its end
F_Insert ==
    /\ fpc = "insert"
    /\ lockHolder = NoTask
    /\ store' = MapInsert(store, fprops.path, fprops.props)
    /\ fetched' = fetched \cup {fprops.path}
    /\ torn' = torn \ {fprops.path}
    /\ fprops' = NoProps
    /\ fidx' = fidx + 1
    /\ fpc' = AfterDevice(fidx)
    /\ newer' = {}
    /\ UNCHANGED <<widget, dev, lockHolder, snap, lpc, lpath, lcur, nrecv, chan,
                   lastPub, npub, lcause,
                   fcause, lwant>>

\* who holds the lock while tx.send_update(properties_map.lock().await.clone())
\* is awaited: the guard is a temporary of the statement, alive until its end
FetcherSendHolder == FetcherTask

\* properties_map.lock().await.clone(): the lock is taken and the map cloned
F_Clone ==
    /\ fpc = "publish"
    /\ lockHolder = NoTask
    /\ snap' = [snap EXCEPT ![FetcherTask] = store]
    /\ lockHolder' = FetcherSendHolder
    /\ fpc' = "send"
    /\ UNCHANGED <<newer, widget, dev, store, fidx, fprops, lpc, lpath, lcur, nrecv, chan,
                   lastPub, npub, fetched, torn, lcause,
                   fcause, lwant>>

\* the send completes, the statement ends, the task returns Ok(())
F_Send ==
    /\ fpc = "send"
    /\ Publish(FetcherTask)
    /\ lockHolder' = IF lockHolder = FetcherTask THEN NoTask ELSE lockHolder
    /\ snap' = [snap EXCEPT ![FetcherTask] = EmptyMap]
    /\ fpc' = "done"
    /\ UNCHANGED <<newer, widget, dev, store, fidx, fprops, lpc, lpath, lcur, nrecv, fetched,
                   torn, lcause,
                   fcause, lwant>>

(* ---- the listener task of proxy d ---- *)

\* the listener up to its loop: proxy.receive_properties_changed().await?,
\* proxy.get_all(..).await?, and the decoding of NativePath; `outcome` is how
\* the two calls on the bus end
L_Start(d) ==
    /\ lpc[d] = "start"
    /\ \E outcome \in {"ok", "subscribe", "get_all"} :
         LET decoded == Has(dev[d], "NativePath", "str") IN
         /\ lpc' = [lpc EXCEPT ![d] = IF outcome # "ok" THEN "failed"
                                      ELSE IF ~decoded THEN "panicked" ELSE "next"]
         /\ lcause' = [lcause EXCEPT ![d] = IF outcome # "ok" THEN outcome
                                            ELSE IF ~decoded THEN "NativePath" ELSE @]
         /\ lpath' = [lpath EXCEPT ![d] = IF outcome = "ok" /\ decoded
                                          THEN dev[d]["NativePath"].str ELSE @]
    /\ UNCHANGED <<newer, widget, dev, store, lockHolder, fpc, fidx, fprops, snap, lcur, nrecv,
                   chan, lastPub, npub, fetched, torn,
                   fcause, lwant>>

\* prop_changed_stream.next().await yields None: the while let ends, Ok(())
L_Closed(d) ==
    /\ lpc[d] = "next"
    /\ lpc' = [lpc EXCEPT ![d] = "done"]
    /\ lcause' = [lcause EXCEPT ![d] = "closed"]
    /\ UNCHANGED <<newer, widget, dev, store, lockHolder, fpc, fidx, fprops, snap, lpath, lcur,
                   nrecv, chan, lastPub, npub, fetched, torn,
                   fcause, lwant>>

\* prop_changed_stream.next().await yields a signal: signal.args().expect(..),
\* then the interface check with its continue
L_Next(d) ==
    /\ lpc[d] = "next"
    /\ Delivered(nrecv, NumDevices) < MaxEvents
    /\ \E sig \in Signals :
         /\ nrecv' = [nrecv EXCEPT ![d] = @ + 1]
         /\ lpc' = [lpc EXCEPT ![d] =
                      IF ~sig.args_ok THEN "panicked"
                      ELSE IF sig.iface # DeviceInterface THEN "next" ELSE "lock"]
         /\ lcause' = [lcause EXCEPT ![d] = IF ~sig.args_ok THEN "args" ELSE @]
         /\ lcur' = [lcur EXCEPT ![d] =
                       IF sig.args_ok /\ sig.iface = DeviceInterface
                       THEN sig ELSE NoSignal]
         /\ lwant' = [lwant EXCEPT ![d] =
                        IF sig.args_ok /\ sig.iface = DeviceInterface
                        THEN SwallowingApply(@, sig.changed) ELSE @]
    /\ UNCHANGED <<newer, widget, dev, store, lockHolder, fpc, fidx, fprops, snap, lpath,
                   chan, lastPub, npub, fetched, torn,
                   fcause>>

\* the guard leaked by the panic: the lock stays with the dead listener
HolderAfterPanic_Leaked(d) == d

\* who holds the lock once a panic has unwound the listener's loop body: the
\* MutexGuard is dropped by the unwinding
HolderAfterPanic(d) == NoTask

\* the guard dropped before the send is awaited
ListenerSendHolder_Released(d) == NoTask

\* who holds the lock while tx.send_update(properties_map.clone()) is awaited:
\* the guard bound by `let mut properties_map` lives to the end of the body
ListenerSendHolder(d) == d

\* properties_map.lock().await, entry(..).or_insert_with(..), the for loop over
\* the changed properties, and properties_map.clone()
L_Apply(d) ==
    /\ lpc[d] = "lock"
    /\ lockHolder = NoTask
    /\ \E order \in Orders(lcur[d].changed) :
         LET r == ApplyChanged(EntryOrDefault(store, lpath[d]), lcur[d].changed, order)
             after == MapInsert(store, lpath[d], r.props)
         IN  /\ store' = after
             /\ torn' = IF /\ r.panicked
                           /\ r.written > 0
                           /\ r.written < Cardinality(WellTyped(lcur[d].changed))
                        THEN torn \cup {lpath[d]} ELSE torn
             /\ lpc' = [lpc EXCEPT ![d] = IF r.panicked THEN "panicked" ELSE "send"]
             /\ lcause' = [lcause EXCEPT ![d] = IF r.panicked THEN r.arm ELSE @]
             /\ lockHolder' = IF r.panicked THEN HolderAfterPanic(d)
                              ELSE ListenerSendHolder(d)
             /\ snap' = [snap EXCEPT ![d] = IF r.panicked THEN @ ELSE after]
             /\ newer' = IF fpc = "insert" /\ fprops.path = lpath[d]
                         THEN newer \cup
                              { f \in DOMAIN r.props :
                                  r.props[f] # EntryOrDefault(store, lpath[d])[f] }
                         ELSE newer
    /\ UNCHANGED <<widget, dev, fpc, fidx, fprops, lpath, lcur, nrecv, chan, lastPub, npub,
                   fetched,
                   fcause, lwant>>

\* the send completes and the loop body ends, dropping the guard
L_Send(d) ==
    /\ lpc[d] = "send"
    /\ Publish(d)
    /\ lockHolder' = IF lockHolder = d THEN NoTask ELSE lockHolder
    /\ snap' = [snap EXCEPT ![d] = EmptyMap]
    /\ lcur' = [lcur EXCEPT ![d] = NoSignal]
    /\ lpc' = [lpc EXCEPT ![d] = "next"]
    /\ UNCHANGED <<newer, widget, dev, store, fpc, fidx, fprops, lpath, nrecv, fetched, torn,
                   lcause,
                   fcause, lwant>>

(* ---- the receiving end of tx ---- *)

\* the key the closures of the button label and of the popup index the
\* snapshot with
PrimaryKey == "BAT0"

\* the closures given to recv_glib_async and recv_glib, run on a snapshot:
\* properties["BAT0"] panics when the map has no such key
recv_glib(properties) ==
    IF PrimaryKey \in DOMAIN properties THEN "running" ELSE "panicked"

\* the bar's receiver takes the oldest snapshot out of the channel and hands
\* it to the closures of the button label and of the popup
Receive ==
    /\ chan # << >>
    /\ chan' = Tail(chan)
    /\ widget' = IF widget = "running" THEN recv_glib(Head(chan)) ELSE widget
    /\ UNCHANGED <<newer, dev, store, lockHolder, fpc, fidx, fprops, snap, lpc, lpath,
                   lcur, nrecv, lastPub, npub, fetched, torn, lcause,
                   fcause, lwant>>

Next ==
    \/ F_GetAllErr
    \/ F_GetAll
    \/ F_Insert
    \/ F_Clone
    \/ F_Send
    \/ \E d \in Dev : L_Start(d)
    \/ \E d \in Dev : L_Closed(d)
    \/ \E d \in Dev : L_Next(d)
    \/ \E d \in Dev : L_Apply(d)
    \/ \E d \in Dev : L_Send(d)
    \/ Receive

Spec == Init /\ [][Next]_vars

(* ------------------------------- the claims ----------------------------- *)

\* the listeners that have ended, for whatever reason
Ended == { d \in Dev : lpc[d] \in {"done", "failed", "panicked"} }

\* the native paths of the devices the fetcher can decode as batteries
BatteryPaths ==
    { dev[d]["NativePath"].str :
        d \in { e \in Dev : /\ dev[e]["Type"] = U32(BatteryType)
                            /\ dev[e]["NativePath"].ty = "str" } }

\* C1: every snapshot sent reflects each change event atomically: no snapshot
\* holds an entry into which only some of one event's fields were written,
\* also when a later field of that event fails to decode.
C1_EventsAtomicInSnapshots == lastPub.torn = {}

\* C2: when a listener handles a change event with a mistyped value for a
\* recognized field, exactly that field keeps its stored value, every other
\* well-typed recognized field of the event is applied, and the resulting
\* Store is on its way to the subscribers.
C2_MistypedFieldSwallowed ==
    [][\A d \in Dev :
         (lpc[d] = "lock" /\ lpc'[d] # "lock" /\ Mistyped(lcur[d].changed) # {})
         => /\ lpc'[d] = "send"
            /\ store' = MapInsert(store, lpath[d],
                                  SwallowingApply(EntryOrDefault(store, lpath[d]),
                                                  lcur[d].changed))
            /\ snap'[d] = store']_vars

\* C3: a malformed field of a change event (a mistyped value, or a State code
\* outside 0..6) does not end the device's update stream: no listener ends in
\* an arm of its match, so it is there for every later event.
C3_MalformedFieldKeepsStream == \A d \in Dev : lcause[d] \notin Recognized

\* C4: once a listener has handled the events it received, on a Store the
\* fetcher has not written for that device, the device's entry holds for each
\* field the last successfully decoded value the events carried, and the
\* default for a field none of them carried.
C4_LastDecodedValueWins ==
    \A d \in Dev :
        (/\ lpc[d] \in {"next", "done", "panicked"}
         /\ lpath[d] \in DOMAIN store
         /\ lpath[d] \notin fetched)
        => store[lpath[d]] = lwant[d]

\* C5: a failure while fetching one device affects only that device: when the
\* fetcher has ended it has gone over every device of the list, and what it
\* inserted has been published.
C5_FetchFailureIsolated ==
    fpc \in {"done", "failed"}
    => /\ fidx >= NumDevices
       /\ (fetched # {} => npub[FetcherTask] > 0)

\* C6: the fetcher inserts no entry for a device whose Type is not 2: the keys
\* it inserted are native paths of batteries, they are exactly those once it
\* has finished, and no decoding failure happens at a non-battery device.
C6_OnlyBatteriesFetched ==
    /\ fetched \subseteq BatteryPaths
    /\ (fpc = "done" => fetched = BatteryPaths)
    /\ (fcause = "decode" => dev[fidx]["Type"] \notin { U32(n) : n \in {0, 1, 3} })

\* C6 witness: the fetcher finished after skipping a line-power device and
\* inserting the battery behind it
C6_Witness ==
    /\ fpc = "done"
    /\ \E d1, d2 \in Dev :
         /\ d1 < d2
         /\ dev[d1]["Type"] = U32(1)
         /\ dev[d2]["Type"] = U32(BatteryType)
         /\ PathOf(d2) \in fetched
         /\ PathOf(d1) \notin fetched

\* C7 as stated: each successfully fetched battery is followed by its own
\* publish before the next device is read, so k batteries give k publishes.
C7_PublishPerDevice ==
    fpc \in {"get_all", "done"} => npub[FetcherTask] = Cardinality(fetched)

\* C7 as amended: the fetcher publishes once per pass, after its loop has
\* gone over every device: it has sent nothing before it is done, exactly one
\* snapshot when it is done, and that snapshot holds every key it inserted.
C7_PublishOnceAfterLoop ==
    /\ npub[FetcherTask] = (IF fpc = "done" THEN 1 ELSE 0)
    /\ (fpc \in {"publish", "send", "done"} => fidx = NumDevices + 1)
    /\ (fpc = "send" => fetched \subseteq DOMAIN snap[FetcherTask])

\* C7 witness: a pass over two batteries has ended with one publish
C7_Witness ==
    /\ fpc = "done"
    /\ Cardinality(fetched) = 2
    /\ npub[FetcherTask] = 1

\* C8: the BatteryState mapping never fails in either path: no listener ends
\* in the State arm, and a State event leaves the mapped state, Unknown for a
\* code outside 0..6, in the entry.
C8_StateMappingNeverFails ==
    [][\A d \in Dev :
         (/\ lpc[d] = "lock" /\ lpc'[d] # "lock"
          /\ DOMAIN lcur[d].changed = {"State"}
          /\ lcur[d].changed["State"].ty = "u32")
         => /\ lpc'[d] = "send"
            /\ store'[lpath[d]].state = TotalState(lcur[d].changed["State"].val)]_vars

\* C9: no task holds the Store lock while it waits on a snapshot send.
C9_NoLockAcrossSend ==
    /\ (fpc = "send" => lockHolder # FetcherTask)
    /\ \A d \in Dev : lpc[d] = "send" => lockHolder # d

\* the lock is free or held by a task that is alive and about to release it
LockHeldByLiveTask ==
    \/ lockHolder = NoTask
    \/ lockHolder = FetcherTask /\ fpc = "send"
    \/ lockHolder \in Dev /\ lpc[lockHolder] = "send"

\* C10: listener failures are isolated: the lock is never left with a task
\* that has ended, so the fetcher and the other listeners can still take it,
\* and a listener that has ended is not started again.
C10_ListenerFailureIsolated ==
    /\ [](LockHeldByLiveTask /\ lockHolder \notin Ended)
    /\ [][\A d \in Dev : d \in Ended => lpc'[d] = lpc[d]]_vars

\* C10 witness: a listener died in an arm of its match, holding the lock, and
\* afterwards another listener applied an event and published
C10_Witness ==
    \E d1, d2 \in Dev :
        /\ d1 # d2
        /\ lcause[d1] \in Recognized
        /\ lastPub.by = d2
        /\ d1 \in lastPub.ended

\* listener d takes the lock and handles the signal it has in hand
Handles(d) == lpc[d] = "lock" /\ lpc'[d] # "lock"

\* C11 as stated: a change event whose names are all unrecognized leaves the
\* Store as it was, whatever the Store held, also when the device had no
\* entry.
C11_UnrecognizedIsNoOp ==
    [][\A d \in Dev :
         (Handles(d) /\ DOMAIN lcur[d].changed \cap Recognized = {})
         => store' = store]_vars

\* C11 as amended: such an event leaves every entry that exists as it was and
\* ends no listener; when the device has no entry the Store gains exactly the
\* default entry of that device.
C11_UnrecognizedKeepsEntries ==
    [][\A d \in Dev :
         (Handles(d) /\ DOMAIN lcur[d].changed \cap Recognized = {})
         => /\ lpc'[d] = "send"
            /\ DOMAIN store' = DOMAIN store \cup {lpath[d]}
            /\ \A k \in DOMAIN store : store'[k] = store[k]
            /\ (lpath[d] \notin DOMAIN store => store'[lpath[d]] = DefaultProperties)]_vars

\* C11 witness: a listener has handled an event naming only Online on an
\* entry the fetcher had inserted, and is sending
C11_Witness ==
    \E d \in Dev :
        /\ lpc[d] = "send"
        /\ DOMAIN lcur[d].changed = {"Online"}
        /\ lpath[d] \in fetched
        /\ store[lpath[d]].percentage = 57

\* listener d handles an event carrying only a well-typed Percentage, for a
\* device whose entry the fetcher has inserted
HandlesPercentageOnly(d) ==
    /\ Handles(d)
    /\ DOMAIN lcur[d].changed = {"Percentage"}
    /\ lcur[d].changed["Percentage"].ty = "f64"
    /\ lpath[d] \in fetched

\* C12 as stated: the snapshot the listener sends next has the new percentage
\* in the device's entry, the entry's other fields as in the snapshot sent
\* before it, and every other device's entry as in that snapshot.
C12_FrameAgainstPriorSnapshot ==
    [][\A d \in Dev :
         (HandlesPercentageOnly(d) /\ lastPub.by # NoTask)
         => /\ lpath[d] \in DOMAIN lastPub.snap
            /\ DOMAIN snap'[d] = DOMAIN lastPub.snap
            /\ \A k \in DOMAIN lastPub.snap :
                 snap'[d][k] =
                   IF k = lpath[d]
                   THEN [lastPub.snap[k] EXCEPT
                           !.percentage = lcur[d].changed["Percentage"].val]
                   ELSE lastPub.snap[k]]_vars

\* C12 as amended: the snapshot the listener sends next is the Store as it
\* was when the listener took the lock, with the new percentage in the
\* device's entry, that entry's other fields and every other entry unchanged.
C12_FrameAgainstStore ==
    [][\A d \in Dev :
         HandlesPercentageOnly(d)
         => /\ lpc'[d] = "send"
            /\ snap'[d] = store'
            /\ DOMAIN store' = DOMAIN store
            /\ \A k \in DOMAIN store :
                 store'[k] =
                   IF k = lpath[d]
                   THEN [store[k] EXCEPT
                           !.percentage = lcur[d].changed["Percentage"].val]
                   ELSE store[k]]_vars

\* C12 witness: a listener is sending a snapshot in which its fetched entry
\* has the event's percentage and the fetched icon, beside another entry
C12_Witness ==
    \E d \in Dev :
        /\ lpc[d] = "send"
        /\ lcur[d].changed = [Percentage |-> F64(60)]
        /\ lpath[d] \in fetched
        /\ snap[d][lpath[d]].percentage = 60
        /\ snap[d][lpath[d]].icon_name = "battery-good"
        /\ DOMAIN snap[d] # {lpath[d]}

\* the stream of listener d delivers a signal the interface check skips
Skips(d) == lpc[d] = "next" /\ lpc'[d] = "next" /\ nrecv'[d] # nrecv[d]

\* C13: a listener publishes exactly once per matching change event, whatever
\* fields the event carries: handling a matching event always takes the
\* listener to the send of one snapshot, the listener's count of snapshots
\* sent grows by one in that send and in no other step; an event of another
\* interface changes neither the Store nor the channel.
C13_OnePublishPerMatchingEvent ==
    [][\A d \in Dev :
         /\ Handles(d) => lpc'[d] = "send" /\ npub'[d] = npub[d]
         /\ (lpc[d] = "send" /\ lpc'[d] # "send")
              => lpc'[d] = "next" /\ npub'[d] = npub[d] + 1
         /\ npub'[d] # npub[d] => lpc[d] = "send"
         /\ Skips(d) => store' = store /\ chan' = chan /\ npub' = npub]_vars

\* C14: a matching change event for a device with no entry never fails: the
\* listener is left sending a snapshot whose entry for the device is the
\* default entry with the event's fields applied; and a key enters the Store
\* only by the fetcher's insert or by a matching event of its device.
C14_FirstEventCreatesEntry ==
    [][/\ \A d \in Dev :
            (Handles(d) /\ lpath[d] \notin DOMAIN store)
            => /\ lpc'[d] = "send"
               /\ lpath[d] \in DOMAIN snap'[d]
               /\ snap'[d][lpath[d]] =
                    SwallowingApply(DefaultProperties, lcur[d].changed)
       /\ \A k \in DOMAIN store' \ DOMAIN store :
            \/ fpc = "insert" /\ fpc' # "insert" /\ k = fprops.path
            \/ \E d \in Dev : Handles(d) /\ k = lpath[d]]_vars

\* C15: every snapshot sent is a copy of the Store as it is when it enters
\* the channel: the channel changes only by appending the current Store or
\* by losing its head, so snapshots are queued in the order of the Store
\* states they copy, and a step that changes the Store leaves the channel and
\* the last snapshot sent as they are.
C15_SnapshotIsStoreAtPublish ==
    [][/\ chan' # chan => \/ chan' = Append(chan, store)
                          \/ chan # << >> /\ chan' = Tail(chan)
       /\ lastPub' # lastPub => lastPub'.snap = store
       /\ store' # store => chan' = chan /\ lastPub' = lastPub]_vars

\* C15 witness: a snapshot sent is still in the channel, and the Store has
\* been changed since it was sent
C15_Witness ==
    /\ chan # << >>
    /\ chan[Len(chan)] = lastPub.snap
    /\ lastPub.by \in Dev
    /\ lastPub.snap # store
    /\ DOMAIN lastPub.snap # {}

\* C16: the closures of the button label and of the popup handle every
\* snapshot they receive, those without the key "BAT0" included: none of them
\* has panicked.
C16_ConsumersHandleEverySnapshot == widget = "running"

\* C17: the Store, and so every snapshot sent, holds entries only for devices
\* whose Type is the battery code 2.
C17_StoreHoldsOnlyBatteries ==
    /\ DOMAIN store \subseteq BatteryPaths
    /\ DOMAIN lastPub.snap \subseteq BatteryPaths

\* C18: the fetcher never overwrites newer data with older data: when it
\* inserts the record it read, the fields a listener has changed in that
\* entry since the read keep the values the listener gave them.
C18_InsertKeepsNewerFields ==
    [][(fpc = "insert" /\ fpc' # "insert")
       => \A f \in newer : store'[fprops.path][f] = store[fprops.path][f]]_vars

\* every task is waiting for a signal or has ended
Quiescent ==
    /\ fpc \in {"done", "failed"}
    /\ \A d \in Dev : lpc[d] \in {"next", "done", "failed", "panicked"}

\* C19: every change of the Store gets published: once every task is idle or
\* has ended, the snapshot sent last equals the Store, the entries the
\* fetcher inserted before it failed on a later device included.
C19_QuiescentStoreIsPublished == Quiescent => lastPub.snap = store

====
